---- MODULE Spec2Model ----
(***************************************************************************)
(* Response parsers of Search_Assistant (src/ai_utils.py): parse_pico,     *)
(* parse_concepts and parse_search_terms_all.                              *)
(*                                                                         *)
(* A Python str is modelled as a sequence of characters; a character is a  *)
(* one-character string, except that the two non-ASCII code points the     *)
(* model needs are written by their code point name ("U+0131", "U+017F").  *)
(* A Python dict is modelled as a sequence of <<key, value>> pairs in      *)
(* insertion order.                                                        *)
(***************************************************************************)
EXTENDS Integers, Sequences, FiniteSets, TLC

VARIABLES
    pc,               \* position of the program
    pico_src,         \* the lines the input of parse_pico was written from
    pico_text,        \* argument of parse_pico
    pico_elements,    \* dict returned by parse_pico
    concepts_text,    \* argument of parse_concepts
    concepts,         \* list returned by parse_concepts
    reparsed,         \* parse_concepts of the joined list
    concepts_list,    \* the concepts the caller asked search terms for
    terms_output,     \* argument of parse_search_terms_all
    concept_blocks,   \* the blocks not yet handled by the outer loop
    lines,            \* the lines of the block not yet handled by the inner loop
    concept_name,     \* locals of the outer loop body
    mesh_terms,
    text_terms,
    current_section,
    search_terms_dict, \* dict built and returned by parse_search_terms_all
    entry_point,      \* the entry point of ai_utils that is called
    env_key,          \* OPENAI_API_KEY is set in the environment
    secrets_key,      \* OPENAI_API_KEY is set in the Streamlit secrets
    llm_reply,        \* what client.chat.completions.create did
    events,           \* the statements of the try body executed so far
    caught,           \* the exception e caught by the except clause
    logged,           \* the causes written with logging.error
    raised,           \* the exception that reached the caller
    result,           \* the value returned to the caller
    session_state,    \* st.session_state of the wizard
    shown             \* the step the last run of main rendered

picoVars == <<pico_src, pico_text, pico_elements>>
conceptVars == <<concepts_text, concepts, reparsed>>
blockVars == <<concept_name, mesh_terms, text_terms, current_section>>
termVars == <<concepts_list, terms_output, concept_blocks, lines, blockVars,
              search_terms_dict>>
entryVars == <<entry_point, env_key, secrets_key, llm_reply, events, caught,
               logged, result>>
appVars == <<entryVars, raised, session_state, shown>>
vars == <<pc, picoVars, conceptVars, termVars, appVars>>

-----------------------------------------------------------------------------
(* Characters and the str methods the parsers use.                         *)

NL == "\n"
CR == "\r"
DotlessI == "U+0131"
LongS == "U+017F"

LowerLetters == <<"a","b","c","d","e","f","g","h","i","j","k","l","m",
                  "n","o","p","q","r","s","t","u","v","w","x","y","z">>
UpperLetters == <<"A","B","C","D","E","F","G","H","I","J","K","L","M",
                  "N","O","P","Q","R","S","T","U","V","W","X","Y","Z">>

IsUpper(c) == \E i \in 1..Len(UpperLetters) : UpperLetters[i] = c
IsLower(c) == \E i \in 1..Len(LowerLetters) : LowerLetters[i] = c

\* str.lower() of one character: U+0131 and U+017F are lower-case already.
LowerChar(c) ==
    IF IsUpper(c)
    THEN LowerLetters[CHOOSE i \in 1..Len(UpperLetters) : UpperLetters[i] = c]
    ELSE c

\* str.upper()/title() of one character: U+0131 -> I, U+017F -> S.
UpperChar(c) ==
    IF IsLower(c)
    THEN UpperLetters[CHOOSE i \in 1..Len(LowerLetters) : LowerLetters[i] = c]
    ELSE IF c = DotlessI THEN "I"
    ELSE IF c = LongS THEN "S"
    ELSE c

\* Case folding of re.IGNORECASE on a str pattern: besides the ASCII pairs,
\* 'i' also matches U+0131 and 's' also matches U+017F.
FoldChar(c) ==
    IF c = DotlessI THEN "i"
    ELSE IF c = LongS THEN "s"
    ELSE LowerChar(c)

\* As IsSpace without the carriage return.
IsSpace_NoCR(c) == c \in {" ", "\t", NL}

\* \s of re and the whitespace of str.strip().
IsSpace(c) == c \in {" ", "\t", NL, CR}

\* \d of re.
IsDigit(c) == c \in {"0","1","2","3","4","5","6","7","8","9"}

Tail2(s) == SubSeq(s, 3, Len(s))
DropN(s, n) == SubSeq(s, n + 1, Len(s))

RECURSIVE lstrip(_)
lstrip(s) == IF s # <<>> /\ IsSpace(Head(s)) THEN lstrip(Tail(s)) ELSE s

RECURSIVE rstrip(_)
rstrip(s) ==
    IF s # <<>> /\ IsSpace(s[Len(s)]) THEN rstrip(SubSeq(s, 1, Len(s) - 1)) ELSE s

\* str.strip()
strip(s) == rstrip(lstrip(s))

\* The position of the first newline of s from start on, 0 when there is none.
FirstNewline(s, start) ==
    IF \E j \in start..Len(s) : s[j] = NL
    THEN CHOOSE j \in start..Len(s) :
             s[j] = NL /\ \A k \in start..(j - 1) : s[k] # NL
    ELSE 0

\* str.split('\n') of s from start on: always at least one piece.
RECURSIVE SplitLinesFrom(_, _)
SplitLinesFrom(s, start) ==
    LET j == FirstNewline(s, start)
    IN  IF j = 0 THEN <<SubSeq(s, start, Len(s))>>
        ELSE <<SubSeq(s, start, j - 1)>> \o SplitLinesFrom(s, j + 1)

\* str.split('\n')
split_nl(s) == SplitLinesFrom(s, 1)

\* '\n'.join(lines)
RECURSIVE join_nl(_)
join_nl(ls) ==
    IF ls = <<>> THEN <<>>
    ELSE IF Len(ls) = 1 THEN ls[1]
    ELSE ls[1] \o <<NL>> \o join_nl(Tail(ls))

\* str.startswith(prefix)
startswith(s, prefix) ==
    Len(s) >= Len(prefix) /\ SubSeq(s, 1, Len(prefix)) = prefix

\* str.capitalize(): first character title-cased, the rest lower-cased.
capitalize(s) ==
    [i \in 1..Len(s) |-> IF i = 1 THEN UpperChar(s[i]) ELSE LowerChar(s[i])]

-----------------------------------------------------------------------------
(* dict with insertion order                                               *)

DictKeys(d) == [i \in 1..Len(d) |-> d[i][1]]
DictKeySet(d) == {d[i][1] : i \in 1..Len(d)}
DictHas(d, k) == \E i \in 1..Len(d) : d[i][1] = k
DictGet(d, k) == d[CHOOSE i \in 1..Len(d) : d[i][1] = k][2]

\* d[k] = v: an existing key keeps its position, a new key goes last.
DictSet(d, k, v) ==
    IF DictHas(d, k)
    THEN [i \in 1..Len(d) |-> IF d[i][1] = k THEN <<k, v>> ELSE d[i]]
    ELSE Append(d, <<k, v>>)

-----------------------------------------------------------------------------
(* parse_pico                                                              *)

Population == <<"P","o","p","u","l","a","t","i","o","n">>
Intervention == <<"I","n","t","e","r","v","e","n","t","i","o","n">>
Comparison == <<"C","o","m","p","a","r","i","s","o","n">>
Outcome == <<"O","u","t","c","o","m","e">>

PicoLabels == <<Population, Intervention, Comparison, Outcome>>

\* pico_elements = {'Population': '', 'Intervention': '', ...}
EmptyPico == [i \in 1..Len(PicoLabels) |-> <<PicoLabels[i], <<>>>>]

\* re.sub(r'\*\*|__', '', s): leftmost non-overlapping matches, one pass.
RECURSIVE RemoveEmphasis(_)
RemoveEmphasis(s) ==
    IF s = <<>> THEN <<>>
    ELSE IF Len(s) >= 2 /\ ((s[1] = "*" /\ s[2] = "*") \/ (s[1] = "_" /\ s[2] = "_"))
    THEN RemoveEmphasis(Tail2(s))
    ELSE <<Head(s)>> \o RemoveEmphasis(Tail(s))

\* As StripBullets with the character class [-\s]: asterisks stay.
RECURSIVE StripBullets_DashOnly(_)
StripBullets_DashOnly(line) ==
    IF line # <<>> /\ (Head(line) = "-" \/ IsSpace(Head(line)))
    THEN StripBullets_DashOnly(Tail(line))
    ELSE line

\* re.sub(r'^[-*\s]*', '', line)
RECURSIVE StripBullets(_)
StripBullets(line) ==
    IF line # <<>> /\ (Head(line) \in {"-", "*"} \/ IsSpace(Head(line)))
    THEN StripBullets(Tail(line))
    ELSE line

\* The alternation (Population|Intervention|Comparison|Outcome) under
\* re.IGNORECASE at the start of the line.
MatchesLabel(line, label) ==
    /\ Len(line) >= Len(label)
    /\ \A i \in 1..Len(label) : FoldChar(line[i]) = FoldChar(label[i])

\* re.match(r'^(Population|Intervention|Comparison|Outcome)\s*:\s*(.*)',
\*          line, re.IGNORECASE): ok, group(1), group(2)
PicoMatch(line) ==
    IF \E n \in 1..Len(PicoLabels) : MatchesLabel(line, PicoLabels[n])
    THEN LET n == CHOOSE m \in 1..Len(PicoLabels) :
                      /\ MatchesLabel(line, PicoLabels[m])
                      /\ \A k \in 1..(m - 1) : ~MatchesLabel(line, PicoLabels[k])
             label == PicoLabels[n]
             rest == lstrip(DropN(line, Len(label)))
         IN  IF rest # <<>> /\ Head(rest) = ":"
             THEN [ok |-> TRUE,
                   group1 |-> SubSeq(line, 1, Len(label)),
                   group2 |-> lstrip(Tail(rest))]
             ELSE [ok |-> FALSE, group1 |-> <<>>, group2 |-> <<>>]
    ELSE [ok |-> FALSE, group1 |-> <<>>, group2 |-> <<>>]

\* One iteration of the loop over the lines.
PicoLine(elements, rawline) ==
    LET line == StripBullets(strip(rawline))
        match == PicoMatch(line)
    IN  IF match.ok
        THEN DictSet(elements, capitalize(match.group1), strip(match.group2))
        ELSE elements

RECURSIVE PicoLoop(_, _)
PicoLoop(elements, ls) ==
    IF ls = <<>> THEN elements
    ELSE PicoLoop(PicoLine(elements, Head(ls)), Tail(ls))

parse_pico(text) ==
    PicoLoop(EmptyPico, split_nl(strip(RemoveEmphasis(text))))

-----------------------------------------------------------------------------
(* parse_concepts                                                          *)

RECURSIVE DropDigits(_)
DropDigits(s) == IF s # <<>> /\ IsDigit(Head(s)) THEN DropDigits(Tail(s)) ELSE s

\* As StripNumbering with the pattern ^\d+\.?\s*: the dot is optional.
StripNumbering_OptionalDot(line) ==
    IF line # <<>> /\ IsDigit(Head(line))
    THEN LET rest == DropDigits(line)
         IN  IF rest # <<>> /\ Head(rest) = "." THEN lstrip(Tail(rest))
             ELSE lstrip(rest)
    ELSE line

\* re.sub(r'^\d+\.\s*', '', line)
StripNumbering(line) ==
    IF line # <<>> /\ IsDigit(Head(line))
         /\ DropDigits(line) # <<>> /\ Head(DropDigits(line)) = "."
    THEN lstrip(Tail(DropDigits(line)))
    ELSE line

\* concept = re.sub(r'^\d+\.\s*', '', line).strip()
ConceptOf(line) == strip(StripNumbering(line))

\* As ConceptsStep, but a concept already in the list is not added again.
ConceptsStep_Dedup(list, line) ==
    IF ConceptOf(line) # <<>> /\ \A i \in 1..Len(list) : list[i] # ConceptOf(line)
    THEN Append(list, ConceptOf(line))
    ELSE list

\* One iteration of the loop: if concept: concepts.append(concept)
ConceptsStep(list, line) ==
    IF ConceptOf(line) # <<>> THEN Append(list, ConceptOf(line)) ELSE list

RECURSIVE ConceptsLoop(_, _)
ConceptsLoop(list, ls) ==
    IF ls = <<>> THEN list
    ELSE ConceptsLoop(ConceptsStep(list, Head(ls)), Tail(ls))

\* lines = concepts_text.strip().split('\n')
ConceptLinesOf(text) == split_nl(strip(text))

parse_concepts(text) == ConceptsLoop(<<>>, ConceptLinesOf(text))

-----------------------------------------------------------------------------
(* parse_search_terms_all                                                  *)

ConceptHeader == <<"C","o","n","c","e","p","t",":">>
MeshHeader == <<"M","e","S","H"," ","T","e","r","m","s",":">>
TextHeader == <<"T","e","x","t"," ","T","e","r","m","s",":">>

\* s[i..] begins with 'Concept:'
ConceptAt(s, i) ==
    /\ i + Len(ConceptHeader) - 1 <= Len(s)
    /\ \A k \in 1..Len(ConceptHeader) : s[i + k - 1] = ConceptHeader[k]

\* A newline directly followed by 'Concept:': a match of \n(?=Concept:).
BlockCutAt(s, i) == s[i] = NL /\ ConceptAt(s, i + 1)

\* The position of the first such newline from start on, 0 when none.
FirstBlockCut(s, start) ==
    IF \E j \in start..Len(s) : BlockCutAt(s, j)
    THEN CHOOSE j \in start..Len(s) :
             BlockCutAt(s, j) /\ \A k \in start..(j - 1) : ~BlockCutAt(s, k)
    ELSE 0

RECURSIVE SplitBlocksFrom(_, _)
SplitBlocksFrom(s, start) ==
    LET j == FirstBlockCut(s, start)
    IN  IF j = 0 THEN <<SubSeq(s, start, Len(s))>>
        ELSE <<SubSeq(s, start, j - 1)>> \o SplitBlocksFrom(s, j + 1)

\* re.split(r'\n(?=Concept:)', s): cut at every newline that is directly
\* followed by 'Concept:'; the newline is dropped.
SplitBlocks(s) == SplitBlocksFrom(s, 1)

\* The locals at the start of a block.
NewBlock ==
    [concept_name |-> <<>>, mesh_terms |-> <<>>, text_terms |-> <<>>,
     current_section |-> "None"]

\* As ScanLine, but a dash line goes to the MeSH list whenever the section
\* is not 'Text Terms' (if/else in place of if/elif).
ScanLine_DashDefaultsToMesh(b, rawline) ==
    LET line == strip(rawline) IN
    IF startswith(line, ConceptHeader)
    THEN [b EXCEPT !.concept_name = strip(DropN(line, Len(ConceptHeader)))]
    ELSE IF startswith(line, MeshHeader)
    THEN [b EXCEPT !.current_section = "MeSH Terms"]
    ELSE IF startswith(line, TextHeader)
    THEN [b EXCEPT !.current_section = "Text Terms"]
    ELSE IF startswith(line, <<"-">>)
    THEN IF b.current_section = "Text Terms"
         THEN [b EXCEPT !.text_terms = Append(@, strip(Tail(line)))]
         ELSE [b EXCEPT !.mesh_terms = Append(@, strip(Tail(line)))]
    ELSE b

\* The body of the inner loop for one line.
ScanLine(b, rawline) ==
    LET line == strip(rawline) IN
    IF startswith(line, ConceptHeader)
    THEN [b EXCEPT !.concept_name = strip(DropN(line, Len(ConceptHeader)))]
    ELSE IF startswith(line, MeshHeader)
    THEN [b EXCEPT !.current_section = "MeSH Terms"]
    ELSE IF startswith(line, TextHeader)
    THEN [b EXCEPT !.current_section = "Text Terms"]
    ELSE IF startswith(line, <<"-">>)
    THEN IF b.current_section = "MeSH Terms"
         THEN [b EXCEPT !.mesh_terms = Append(@, strip(Tail(line)))]
         ELSE IF b.current_section = "Text Terms"
         THEN [b EXCEPT !.text_terms = Append(@, strip(Tail(line)))]
         ELSE b
    ELSE b

\* As RecordBlock, but a name already in the dict keeps its first lists.
RecordBlock_KeepFirst(dict, b) ==
    IF b.concept_name # <<>> /\ ~DictHas(dict, b.concept_name)
    THEN DictSet(dict, b.concept_name,
                 [MeSH_Terms |-> b.mesh_terms, Text_Terms |-> b.text_terms])
    ELSE dict

\* As RecordBlock without the test of the name: every block is recorded.
RecordBlock_Always(dict, b) ==
    DictSet(dict, b.concept_name,
            [MeSH_Terms |-> b.mesh_terms, Text_Terms |-> b.text_terms])

\* if concept_name: search_terms_dict[concept_name] = {...}
RecordBlock(dict, b) ==
    IF b.concept_name # <<>>
    THEN DictSet(dict, b.concept_name,
                 [MeSH_Terms |-> b.mesh_terms, Text_Terms |-> b.text_terms])
    ELSE dict

\* lines = block.strip().split('\n')
BlockLines(block) == split_nl(strip(block))

RECURSIVE ScanLines(_, _)
ScanLines(b, ls) ==
    IF ls = <<>> THEN b ELSE ScanLines(ScanLine(b, Head(ls)), Tail(ls))

\* The locals at the end of the inner loop over one block.
ParseBlock(block) == ScanLines(NewBlock, BlockLines(block))

RECURSIVE BlocksLoop(_, _)
BlocksLoop(dict, blocks) ==
    IF blocks = <<>> THEN dict
    ELSE BlocksLoop(RecordBlock(dict, ParseBlock(Head(blocks))), Tail(blocks))

parse_search_terms_all(text) == BlocksLoop(<<>>, SplitBlocks(text))

\* The variables of parse_search_terms_all before it is called.
TermsIdle ==
    /\ concepts_list = <<>>
    /\ terms_output = <<>>
    /\ concept_blocks = <<>>
    /\ lines = <<>>
    /\ concept_name = <<>>
    /\ mesh_terms = <<>>
    /\ text_terms = <<>>
    /\ current_section = "None"
    /\ search_terms_dict = <<>>

\* No entry point is called.
EntryIdle ==
    /\ entry_point = "none"
    /\ env_key = FALSE
    /\ secrets_key = FALSE
    /\ llm_reply = [kind |-> "none", content |-> <<>>]
    /\ events = <<>>
    /\ caught = "none"
    /\ logged = <<>>
    /\ raised = "none"
    /\ result = <<>>

\* No session of the wizard is open.
AppIdle == EntryIdle /\ session_state = <<>> /\ shown = "none"

\* No parser is running.
ParsersIdle ==
    /\ pico_src = [labelled |-> FALSE, values |-> <<>>, lines |-> <<>>]
    /\ pico_text = <<>>
    /\ pico_elements = <<>>
    /\ concepts_text = <<>> /\ concepts = <<>> /\ reparsed = <<>>
    /\ TermsIdle

-----------------------------------------------------------------------------
(* Inputs of parse_pico: replies of the model to the PICO prompts.         *)

MaxPicoLines == 2

SeqsUpTo(S, n) == UNION {[1..k -> S] : k \in 0..n}

UpperStr(s) == [i \in 1..Len(s) |-> UpperChar(s[i])]
LowerStr(s) == [i \in 1..Len(s) |-> LowerChar(s[i])]

PicoValues ==
    { <<"D","r","u","g"," ","X">>,
      <<"a","_","_","b">>,
      <<>> }

PicoStyles == {"plain", "dash_bold_upper", "star_under_lower"}

\* 'Label: value' written in one of the styles a reply uses.
StyledLine(style, label, value) ==
    IF style = "plain"
    THEN label \o <<":", " ">> \o value
    ELSE IF style = "dash_bold_upper"
    THEN <<"-", " ", "*", "*">> \o UpperStr(label) \o <<":", "*", "*", " ">> \o value
    ELSE <<" ", "*", " ", "_", "_">> \o LowerStr(label)
             \o <<"_", "_", " ", ":", " ">> \o value

\* Lines of replies that do not follow the requested format.
PicoFreeLines ==
    { <<>>,
      <<"x">>,
      <<"*", "*">>,
      <<":", " ", "x">>,
      Population,
      Outcome \o <<":", " ", "y">>,
      <<"-", " ">> \o LowerStr(Outcome) \o <<" ", ":", "z", " ">>,
      UpperStr(Comparison) \o <<":">>,
      <<"P","o","p","u","l","a","t",DotlessI,"o","n",":"," ","x">>,
      <<"C","o","m","p","a","r","i",LongS,"o","n",":"," ","x">> }

\* Replies with each of the four labels exactly once, on a line of its own.
PicoLabelledSources ==
    { [labelled |-> TRUE,
       values |-> [n \in 1..4 |-> c[n][2]],
       lines |-> [n \in 1..4 |-> StyledLine(c[n][1], PicoLabels[n], c[n][2])]] :
      c \in [1..4 -> PicoStyles \X PicoValues] }

PicoFreeSources ==
    { [labelled |-> FALSE, values |-> <<>>, lines |-> ls] :
      ls \in SeqsUpTo(PicoFreeLines, MaxPicoLines) }

PicoSources == PicoLabelledSources \cup PicoFreeSources

-----------------------------------------------------------------------------
(* Calls of parse_pico                                                     *)

InitPico ==
    /\ pc = "parse_pico"
    /\ pico_src \in PicoSources
    /\ pico_text = join_nl(pico_src.lines)
    /\ pico_elements = <<>>
    /\ concepts_text = <<>> /\ concepts = <<>> /\ reparsed = <<>>
    /\ TermsIdle
    /\ AppIdle

ParsePico ==
    /\ pc = "parse_pico"
    /\ pico_elements' = parse_pico(pico_text)
    /\ pc' = "pico_done"
    /\ UNCHANGED <<pico_src, pico_text, conceptVars, termVars, appVars>>

NextPico == ParsePico

SpecPico == InitPico /\ [][NextPico]_vars

-----------------------------------------------------------------------------
(* Claims about parse_pico                                                 *)

PicoLabelSet == {PicoLabels[n] : n \in 1..Len(PicoLabels)}

\* Some line of the input matches the label.
PicoLabelMatched(text, label) ==
    \E i \in 1..Len(split_nl(strip(RemoveEmphasis(text)))) :
        LET m == PicoMatch(StripBullets(strip(split_nl(strip(RemoveEmphasis(text)))[i])))
        IN  m.ok /\ MatchesLabel(m.group1, label)

\* C1: for every input text parse_pico returns a mapping whose key set is
\* exactly {Population, Intervention, Comparison, Outcome}, and every label
\* that no line of the input matches keeps the empty string.
C1_FourKeysAlways ==
    pc = "pico_done" =>
        /\ DictKeySet(pico_elements) = PicoLabelSet
        /\ \A label \in PicoLabelSet :
               ~PicoLabelMatched(pico_text, label) =>
                   DictGet(pico_elements, label) = <<>>

\* C2 as stated: when each label appears exactly once as 'Label: value' on
\* its own line, parse_pico returns exactly those four values, whatever the
\* case of the label, the leading bullets and the emphasis markers.
C2_ExactValues ==
    (pc = "pico_done" /\ pico_src.labelled) =>
        \A n \in 1..4 :
            DictGet(pico_elements, PicoLabels[n]) = pico_src.values[n]

\* C2 amended: parse_pico returns the four values with every '**' and '__'
\* removed from them and trimmed, so exactly the given values when they
\* hold no emphasis marker.
C2_ValuesWithoutEmphasis ==
    (pc = "pico_done" /\ pico_src.labelled) =>
        /\ DictKeys(pico_elements) = PicoLabels
        /\ \A n \in 1..4 :
               /\ DictGet(pico_elements, PicoLabels[n])
                      = strip(RemoveEmphasis(pico_src.values[n]))
               /\ RemoveEmphasis(pico_src.values[n]) = pico_src.values[n]
                      => DictGet(pico_elements, PicoLabels[n]) = pico_src.values[n]

\* A reply in three different styles, one value holding '__', is parsed.
C2_Witness ==
    /\ pc = "pico_done"
    /\ pico_src.labelled
    /\ startswith(pico_src.lines[1], <<"-", " ", "*", "*", "P", "O", "P">>)
    /\ startswith(pico_src.lines[2], <<" ", "*", " ", "_", "_", "i", "n", "t">>)
    /\ startswith(pico_src.lines[3], <<"C", "o", "m">>)
    /\ pico_src.values = << <<"D","r","u","g"," ","X">>, <<"a","_","_","b">>,
                            <<"D","r","u","g"," ","X">>, <<>> >>
    /\ DictGet(pico_elements, Population) = <<"D","r","u","g"," ","X">>
    /\ DictGet(pico_elements, Intervention) = <<"a","b">>
    /\ DictGet(pico_elements, Comparison) = <<"D","r","u","g"," ","X">>
    /\ DictGet(pico_elements, Outcome) = <<>>

-----------------------------------------------------------------------------
(* Inputs of parse_concepts: replies to the concept prompt.                *)

MaxConceptLines == 3
MaxRawLen == 3

Bullet == "U+2022"

Diabetes == <<"D","i","a","b","e","t","e","s">>
InsulinTherapy == <<"I","n","s","u","l","i","n"," ","t","h","e","r","a","p","y">>
GlycemicControl == <<"G","l","y","c","e","m","i","c"," ","c","o","n","t","r","o","l">>

ConceptLines ==
    { <<>>,
      Diabetes,
      <<"1","."," ","D","i","a","b","e","t","e","s">>,
      <<"2",")"," ","I","n","s","u","l","i","n"," ","t","h","e","r","a","p","y">>,
      <<"-"," ","G","l","y","c","e","m","i","c"," ","c","o","n","t","r","o","l">>,
      <<"1","."," ","2","."," ","x">>,
      <<" ","3","."," ","y">>,
      <<Bullet," ","x">> }

\* Characters of unstructured replies.
RawChars == {"1", ".", " ", "x", "-", NL}

ConceptInputs ==
    {join_nl(ls) : ls \in SeqsUpTo(ConceptLines, MaxConceptLines)}
        \cup SeqsUpTo(RawChars, MaxRawLen)

\* The example of the concept prompt's three list styles.
ConceptExample == <<"1","."," ","D","i","a","b","e","t","e","s",NL,"2",")"," ","I","n","s","u","l","i","n"," ","t","h","e","r","a","p","y",NL,"-"," ","G","l","y","c","e","m","i","c"," ","c","o","n","t","r","o","l">>

-----------------------------------------------------------------------------
(* Calls of parse_concepts                                                 *)

InitConcepts ==
    /\ pc = "parse_concepts"
    /\ concepts_text \in ConceptInputs
    /\ concepts = <<>>
    /\ reparsed = <<>>
    /\ pico_src = [labelled |-> FALSE, values |-> <<>>, lines |-> <<>>]
    /\ pico_text = <<>>
    /\ pico_elements = <<>>
    /\ TermsIdle
    /\ AppIdle

ParseConcepts ==
    /\ pc = "parse_concepts"
    /\ concepts' = parse_concepts(concepts_text)
    /\ pc' = "concepts_done"
    /\ UNCHANGED <<concepts_text, reparsed, picoVars, termVars, appVars>>

\* The returned list, joined with newlines, is parsed again.
ReparseConcepts ==
    /\ pc = "concepts_done"
    /\ reparsed' = parse_concepts(join_nl(concepts))
    /\ pc' = "concepts_reparsed"
    /\ UNCHANGED <<concepts_text, concepts, picoVars, termVars, appVars>>

NextConcepts == ParseConcepts \/ ReparseConcepts

SpecConcepts == InitConcepts /\ [][NextConcepts]_vars

-----------------------------------------------------------------------------
(* Claims about parse_concepts                                             *)

\* The line begins with an ordinal followed by '.' or ')'.
BeginsWithOrdinal(line, closers) ==
    /\ line # <<>> /\ IsDigit(Head(line))
    /\ DropDigits(line) # <<>> /\ Head(DropDigits(line)) \in closers

BeginsWithBullet(line) == line # <<>> /\ Head(line) \in {"-", "*", Bullet}

\* The line without its numbering or bullet prefix, trimmed.
WithoutMarker(line) ==
    IF BeginsWithOrdinal(line, {".", ")"}) THEN strip(Tail(DropDigits(line)))
    ELSE IF BeginsWithBullet(line) THEN strip(Tail(line))
    ELSE ConceptOf(line)

NonEmpty(x) == x # <<>>

\* C3: parse_concepts strips every numbering and bullet style: a line that
\* begins with an ordinal followed by '.' or ')' or with one bullet character
\* yields the concept without that prefix, so the three-style example gives
\* ['Diabetes', 'Insulin therapy', 'Glycemic control'].
C3_EveryMarkerStripped ==
    pc = "concepts_done" =>
        /\ concepts = SelectSeq([i \in 1..Len(ConceptLinesOf(concepts_text)) |->
                                    WithoutMarker(ConceptLinesOf(concepts_text)[i])],
                                NonEmpty)
        /\ concepts_text = ConceptExample =>
               concepts = <<Diabetes, InsulinTherapy, GlycemicControl>>

\* The indices of the input lines that reduce to a non-empty text.
KeptLines(text) ==
    {i \in 1..Len(ConceptLinesOf(text)) : ConceptOf(ConceptLinesOf(text)[i]) # <<>>}

\* C4: the list returned by parse_concepts holds no empty string, its
\* elements are in the order of the input lines they come from, every line
\* that reduces to a non-empty text has its own element (duplicates stay),
\* and lines that reduce to the empty string are dropped.
C4_OrderedNonEmptyWithDuplicates ==
    pc = "concepts_done" =>
        /\ \A i \in 1..Len(concepts) : concepts[i] # <<>>
        /\ Len(concepts) = Cardinality(KeptLines(concepts_text))
        /\ \E f \in [1..Len(concepts) -> KeptLines(concepts_text)] :
              /\ \A i, j \in 1..Len(concepts) : i < j => f[i] < f[j]
              /\ \A i \in 1..Len(concepts) :
                     concepts[i] = ConceptOf(ConceptLinesOf(concepts_text)[f[i]])

\* Two lines reduce to the same text and an empty line lies between them.
C4_Witness ==
    /\ pc = "concepts_done"
    /\ Len(ConceptLinesOf(concepts_text)) = 3
    /\ ConceptLinesOf(concepts_text)[2] = <<>>
    /\ ConceptLinesOf(concepts_text)[1] # ConceptLinesOf(concepts_text)[3]
    /\ concepts = <<Diabetes, Diabetes>>

\* C5 as stated: the strip is idempotent on every line, and parsing the
\* joined output of parse_concepts returns the same list.
C5_StripIdempotent ==
    pc = "concepts_reparsed" =>
        /\ reparsed = concepts
        /\ \A i \in 1..Len(ConceptLinesOf(concepts_text)) :
               ConceptOf(ConceptOf(ConceptLinesOf(concepts_text)[i]))
                   = ConceptOf(ConceptLinesOf(concepts_text)[i])

\* C5 amended: the strip removes one ordinal only, so it is idempotent on
\* the lines whose stripped text does not begin with an ordinal and a dot
\* again; when no element of the output begins so, parsing the joined
\* output returns the same list.
C5_StripIdempotentPastOneOrdinal ==
    pc = "concepts_reparsed" =>
        /\ (\A i \in 1..Len(concepts) : ~BeginsWithOrdinal(concepts[i], {"."}))
               => reparsed = concepts
        /\ \A i \in 1..Len(ConceptLinesOf(concepts_text)) :
               ~BeginsWithOrdinal(ConceptOf(ConceptLinesOf(concepts_text)[i]), {"."})
                   => ConceptOf(ConceptOf(ConceptLinesOf(concepts_text)[i]))
                          = ConceptOf(ConceptLinesOf(concepts_text)[i])

\* A numbered reply was stripped, and parsing its output again changes nothing.
C5_Witness ==
    /\ pc = "concepts_reparsed"
    /\ Len(ConceptLinesOf(concepts_text)) = 2
    /\ BeginsWithOrdinal(ConceptLinesOf(concepts_text)[1], {"."})
    /\ concepts = <<Diabetes, <<"-", " ">> \o GlycemicControl>>
    /\ reparsed = concepts

-----------------------------------------------------------------------------
(* Inputs of parse_search_terms_all: replies to the search terms prompt,   *)
(* written block by block.                                                  *)

MaxBlocks == 3

Insulin == <<"I","n","s","u","l","i","n">>

BlockDiabetes ==
    << <<"C","o","n","c","e","p","t",":"," ","D","i","a","b","e","t","e","s">>,
       <<"M","e","S","H"," ","T","e","r","m","s",":">>,
       <<"-"," ","a">>,
       <<"-"," ","b">>,
       <<"T","e","x","t"," ","T","e","r","m","s",":">>,
       <<"-"," ","c">> >>

BlockDiabetesAgain ==
    << <<"C","o","n","c","e","p","t",":"," ","D","i","a","b","e","t","e","s">>,
       <<"T","e","x","t"," ","T","e","r","m","s",":">>,
       <<"-"," ","d">>,
       <<>>,
       <<"n","o","t","e">>,
       <<"M","e","S","H"," ","T","e","r","m","s",":">>,
       <<"-"," ","e">> >>

BlockInsulinLower ==
    << <<"C","o","n","c","e","p","t",":"," ","i","n","s","u","l","i","n">>,
       <<"M","e","S","H"," ","T","e","r","m","s",":">>,
       <<"-"," ","b">>,
       <<"T","e","x","t"," ","T","e","r","m","s",":">>,
       <<"-">> >>

BlockLowerHeaders ==
    << <<"c","o","n","c","e","p","t",":"," ","D","i","a","b","e","t","e","s">>,
       <<"M","E","S","H"," ","T","E","R","M","S",":">>,
       <<"-"," ","a">>,
       <<"t","e","x","t"," ","t","e","r","m","s",":">>,
       <<"-"," ","c">> >>

BlockNoName ==
    << <<"C","o","n","c","e","p","t",":">>,
       <<"-"," ","a">>,
       <<"M","e","S","H"," ","T","e","r","m","s",":">>,
       <<"-"," ","b">> >>

BlockPreamble ==
    << <<"H","e","r","e"," ","a","r","e"," ","t","h","e"," ","t","e","r","m","s">>,
       <<"-"," ","a">> >>

BlockIndented ==
    << <<" ","C","o","n","c","e","p","t",":"," ","I","n","s","u","l","i","n">>,
       <<"T","e","x","t"," ","T","e","r","m","s",":">>,
       <<" ","-"," ","c"," ">> >>

BlockSpacedHeaders ==
    << <<"C","o","n","c","e","p","t"," ",":"," ","I","n","s","u","l","i","n">>,
       <<"m","e","s","h"," ","t","e","r","m","s"," ",":">>,
       <<"-"," ","a">>,
       <<"T","e","x","t"," ","T","e","r","m","s"," ",":">>,
       <<"-"," ","c">> >>

TermBlocks ==
    { BlockDiabetes, BlockDiabetesAgain, BlockInsulinLower, BlockLowerHeaders,
      BlockNoName, BlockPreamble, BlockIndented, BlockSpacedHeaders }

RECURSIVE Flatten(_)
Flatten(ss) == IF ss = <<>> THEN <<>> ELSE Head(ss) \o Flatten(Tail(ss))

TermInputs ==
    {join_nl(Flatten(bs)) : bs \in SeqsUpTo(TermBlocks, MaxBlocks)}

\* The concept lists generate_search_terms_all is called with.
ConceptLists == { <<Diabetes, Insulin>>, <<Insulin>> }

-----------------------------------------------------------------------------
(* Calls of parse_search_terms_all, one step per loop iteration.           *)

InitTerms ==
    /\ pc = "parse_search_terms_all"
    /\ concepts_list \in ConceptLists
    /\ terms_output \in TermInputs
    /\ concept_blocks = <<>>
    /\ lines = <<>>
    /\ concept_name = <<>>
    /\ mesh_terms = <<>>
    /\ text_terms = <<>>
    /\ current_section = "None"
    /\ search_terms_dict = <<>>
    /\ pico_src = [labelled |-> FALSE, values |-> <<>>, lines |-> <<>>]
    /\ pico_text = <<>>
    /\ pico_elements = <<>>
    /\ concepts_text = <<>> /\ concepts = <<>> /\ reparsed = <<>>
    /\ AppIdle

\* The locals of the outer loop body as one value.
Locals ==
    [concept_name |-> concept_name, mesh_terms |-> mesh_terms,
     text_terms |-> text_terms, current_section |-> current_section]

SetLocals(b) ==
    /\ concept_name' = b.concept_name
    /\ mesh_terms' = b.mesh_terms
    /\ text_terms' = b.text_terms
    /\ current_section' = b.current_section

\* concept_blocks = re.split(...); search_terms_dict = {}
SplitOutput ==
    /\ pc = "parse_search_terms_all"
    /\ concept_blocks' = SplitBlocks(terms_output)
    /\ search_terms_dict' = <<>>
    /\ pc' = "for_block"
    /\ UNCHANGED <<concepts_list, terms_output, lines, blockVars,
                   picoVars, conceptVars, appVars>>

\* for block in concept_blocks: the lines and the fresh locals
BeginBlock ==
    /\ pc = "for_block"
    /\ concept_blocks # <<>>
    /\ lines' = BlockLines(Head(concept_blocks))
    /\ SetLocals(NewBlock)
    /\ pc' = "for_line"
    /\ UNCHANGED <<concepts_list, terms_output, concept_blocks,
                   search_terms_dict, picoVars, conceptVars, appVars>>

\* for line in lines: one iteration
ScanStep ==
    /\ pc = "for_line"
    /\ lines # <<>>
    /\ SetLocals(ScanLine(Locals, Head(lines)))
    /\ lines' = Tail(lines)
    /\ UNCHANGED <<pc, concepts_list, terms_output, concept_blocks,
                   search_terms_dict, picoVars, conceptVars, appVars>>

\* after the inner loop: the block is recorded under its name
EndBlock ==
    /\ pc = "for_line"
    /\ lines = <<>>
    /\ search_terms_dict' = RecordBlock(search_terms_dict, Locals)
    /\ concept_blocks' = Tail(concept_blocks)
    /\ pc' = "for_block"
    /\ UNCHANGED <<concepts_list, terms_output, lines, blockVars,
                   picoVars, conceptVars, appVars>>

\* return search_terms_dict
ReturnTerms ==
    /\ pc = "for_block"
    /\ concept_blocks = <<>>
    /\ pc' = "terms_done"
    /\ UNCHANGED <<termVars, picoVars, conceptVars, appVars>>

NextTerms == SplitOutput \/ BeginBlock \/ ScanStep \/ EndBlock \/ ReturnTerms

SpecTerms == InitTerms /\ [][NextTerms]_vars

-----------------------------------------------------------------------------
(* Claims about parse_search_terms_all                                     *)

TermsOf(b) == [MeSH_Terms |-> b.mesh_terms, Text_Terms |-> b.text_terms]

\* C6: a concept name the reply echoes back is resolved against the
\* caller's concepts case-insensitively and the caller's string is the key:
\* with ['Diabetes', 'Insulin'] and blocks headed 'Concept: Diabetes' and
\* 'Concept: insulin' the keys are exactly 'Diabetes' and 'Insulin'.
C6_KeysInCallersCasing ==
    pc = "terms_done" =>
        /\ \A i \in 1..Len(search_terms_dict) : \A j \in 1..Len(concepts_list) :
               LowerStr(search_terms_dict[i][1]) = LowerStr(concepts_list[j])
                   => search_terms_dict[i][1] = concepts_list[j]
        /\ (/\ concepts_list = <<Diabetes, Insulin>>
            /\ terms_output = join_nl(BlockDiabetes \o BlockInsulinLower))
               => DictKeys(search_terms_dict) = <<Diabetes, Insulin>>

\* The text after 'word1 word2 ... :' at the start of the line, the words
\* compared without regard to case and with optional whitespace after each.
RECURSIVE AfterWords(_, _)
AfterWords(line, words) ==
    IF words = <<>>
    THEN IF line # <<>> /\ Head(line) = ":"
         THEN [ok |-> TRUE, rest |-> Tail(line)]
         ELSE [ok |-> FALSE, rest |-> <<>>]
    ELSE IF /\ Len(line) >= Len(Head(words))
            /\ LowerStr(SubSeq(line, 1, Len(Head(words)))) = Head(words)
         THEN AfterWords(lstrip(DropN(line, Len(Head(words)))), Tail(words))
         ELSE [ok |-> FALSE, rest |-> <<>>]

WordConcept == <<"c","o","n","c","e","p","t">>
WordMesh == <<"m","e","s","h">>
WordText == <<"t","e","x","t">>
WordTerms == <<"t","e","r","m","s">>

\* The line with its header, if it has one, written as the prompt asks.
CanonicalLine(line) ==
    IF AfterWords(line, <<WordConcept>>).ok
    THEN ConceptHeader \o AfterWords(line, <<WordConcept>>).rest
    ELSE IF AfterWords(line, <<WordMesh, WordTerms>>).ok
    THEN MeshHeader \o AfterWords(line, <<WordMesh, WordTerms>>).rest
    ELSE IF AfterWords(line, <<WordText, WordTerms>>).ok
    THEN TextHeader \o AfterWords(line, <<WordText, WordTerms>>).rest
    ELSE line

CanonicalText(text) ==
    join_nl([i \in 1..Len(split_nl(text)) |-> CanonicalLine(split_nl(text)[i])])

\* C7: the three header lines are recognised case-insensitively and with
\* optional whitespace before the colon and between the two words: a reply
\* gives the same keys and term lists as the same reply written with
\* 'Concept:', 'MeSH Terms:' and 'Text Terms:'.
C7_HeaderVariantsRecognised ==
    pc = "terms_done" =>
        search_terms_dict = parse_search_terms_all(CanonicalText(terms_output))

IsDashLine(line) == startswith(line, <<"-">>)

\* What one iteration of the inner loop may do for the line it handles.
C8_Step ==
    /\ (pc = "for_block" /\ pc' = "for_line") =>
           /\ current_section' = "None"
           /\ mesh_terms' = <<>> /\ text_terms' = <<>>
    /\ (pc = "for_line" /\ lines # <<>>) =>
           LET line == strip(Head(lines)) IN
           IF startswith(line, MeshHeader)
           THEN current_section' = "MeSH Terms" /\ UNCHANGED <<mesh_terms, text_terms>>
           ELSE IF startswith(line, TextHeader)
           THEN current_section' = "Text Terms" /\ UNCHANGED <<mesh_terms, text_terms>>
           ELSE IF IsDashLine(line)
           THEN /\ UNCHANGED current_section
                /\ mesh_terms' = IF current_section = "MeSH Terms"
                                  THEN Append(mesh_terms, strip(Tail(line)))
                                  ELSE mesh_terms
                /\ text_terms' = IF current_section = "Text Terms"
                                  THEN Append(text_terms, strip(Tail(line)))
                                  ELSE text_terms
           ELSE UNCHANGED <<current_section, mesh_terms, text_terms>>

\* C8: within a block the section is one of none, MeSH, Text and starts at
\* none; a 'MeSH Terms:' or 'Text Terms:' line only switches the section; a
\* dash line appends its trimmed remainder to the list of the active section
\* only and is dropped when there is none; any other line changes neither
\* the section nor the lists.  So 'MeSH Terms:', two dash lines,
\* 'Text Terms:', one dash line give lists of length 2 and 1.
C8_SectionMachine ==
    /\ [](current_section \in {"None", "MeSH Terms", "Text Terms"})
    /\ [][C8_Step]_vars
    /\ []((pc = "terms_done" /\ terms_output = join_nl(BlockDiabetes)) =>
             /\ Len(DictGet(search_terms_dict, Diabetes).MeSH_Terms) = 2
             /\ Len(DictGet(search_terms_dict, Diabetes).Text_Terms) = 1)

\* The example block has been parsed, its dash lines went to the two lists.
C8_Witness ==
    /\ pc = "terms_done"
    /\ terms_output = join_nl(BlockDiabetes)
    /\ search_terms_dict =
           << <<Diabetes, [MeSH_Terms |-> << <<"a">>, <<"b">> >>,
                           Text_Terms |-> << <<"c">> >>]>> >>

\* The trimmed names of the 'Concept:' header lines of the text.
HeaderNames(text) ==
    LET ls == split_nl(text)
        stripped == [i \in 1..Len(ls) |-> strip(ls[i])]
    IN  { strip(DropN(stripped[i], Len(ConceptHeader))) :
            i \in {j \in 1..Len(ls) : startswith(stripped[j], ConceptHeader)} }

\* C9: every key of the mapping is the trimmed, non-empty name of some
\* 'Concept:' header line of the input; a block without header or with an
\* empty name adds no key, and text without 'Concept:' line gives the empty
\* mapping.
C9_KeysComeFromHeaders ==
    LET names == HeaderNames(terms_output) IN
    /\ \A i \in 1..Len(search_terms_dict) :
           /\ search_terms_dict[i][1] # <<>>
           /\ search_terms_dict[i][1] \in names
    /\ names = {} => search_terms_dict = <<>>

\* A preamble, a header without name and a named block: one key.
C9_Witness ==
    /\ pc = "terms_done"
    /\ terms_output = join_nl(BlockPreamble \o BlockNoName \o BlockDiabetes)
    /\ DictKeys(search_terms_dict) = <<Diabetes>>

\* The blocks of the text and the name each of them ends with.
BlocksOf(text) == SplitBlocks(text)
BlockNameAt(text, n) == ParseBlock(BlocksOf(text)[n]).concept_name
BlocksNamed(text, name) ==
    {n \in 1..Len(BlocksOf(text)) : BlockNameAt(text, n) = name}
FirstBlock(text, name) ==
    CHOOSE n \in BlocksNamed(text, name) : \A m \in BlocksNamed(text, name) : n <= m
LastBlock(text, name) ==
    CHOOSE n \in BlocksNamed(text, name) : \A m \in BlocksNamed(text, name) : n >= m

\* C10: when several blocks have the same name the result holds one entry
\* for it, with exactly the lists of the last of them, and the keys are in
\* the order of the first block of each name.
C10_LastBlockWinsFirstOrder ==
    pc = "terms_done" =>
        /\ DictKeySet(search_terms_dict)
               = {BlockNameAt(terms_output, n) : n \in 1..Len(BlocksOf(terms_output))}
                     \ {<<>>}
        /\ \A i, j \in 1..Len(search_terms_dict) :
               i < j => FirstBlock(terms_output, search_terms_dict[i][1])
                          < FirstBlock(terms_output, search_terms_dict[j][1])
        /\ \A i \in 1..Len(search_terms_dict) :
               search_terms_dict[i][2] =
                   TermsOf(ParseBlock(BlocksOf(terms_output)
                               [LastBlock(terms_output, search_terms_dict[i][1])]))

\* Diabetes, insulin, Diabetes again: two keys, Diabetes first and with the
\* lists of its second block.
C10_Witness ==
    /\ pc = "terms_done"
    /\ terms_output =
           join_nl(BlockDiabetes \o BlockInsulinLower \o BlockDiabetesAgain)
    /\ search_terms_dict =
           << <<Diabetes, [MeSH_Terms |-> << <<"e">> >>,
                           Text_Terms |-> << <<"d">> >>]>>,
              <<<<"i","n","s","u","l","i","n">>,
                   [MeSH_Terms |-> << <<"b">> >>, Text_Terms |-> << <<>> >>]>> >>

-----------------------------------------------------------------------------
(* The four entry points of ai_utils: generate_pico_from_title,            *)
(* refine_pico_elements, generate_concepts_from_pico and                    *)
(* generate_search_terms_all.  They share one shape: a try body of six      *)
(* statements and one except clause.                                        *)

EntryPoints ==
    {"generate_pico_from_title", "refine_pico_elements",
     "generate_concepts_from_pico", "generate_search_terms_all"}

\* As TryBody with the prompt built before the client and the key lookup.
TryBody_PromptFirst == <<"prompt", "OpenAI", "secrets", "create", "content", "parse">>

\* The statements of the try body in program order: client = OpenAI(),
\* client.api_key = st.secrets[...], prompt = ..., response = create(...),
\* output = response.choices[0].message.content.strip(), parse and return.
TryBody == <<"OpenAI", "secrets", "prompt", "create", "content", "parse">>

\* The statement executed after stmt when stmt raises nothing.
After(stmt) ==
    LET i == CHOOSE j \in 1..Len(TryBody) : TryBody[j] = stmt
    IN  IF i < Len(TryBody) THEN TryBody[i + 1] ELSE "return"

\* The message of the exception each except clause raises.
Message(name) ==
    IF name = "generate_pico_from_title"
    THEN "An error occurred while generating PICO elements from the title."
    ELSE IF name = "refine_pico_elements"
    THEN "An error occurred while refining the PICO elements."
    ELSE IF name = "generate_concepts_from_pico"
    THEN "An error occurred while generating concepts from the PICO elements."
    ELSE "An error occurred while generating search terms."

\* As Reraise with a bare raise: the caught exception goes on to the caller.
Reraise_Original(name, cause) == cause

\* raise Exception("An error occurred while ...") in the except clause
Reraise(name, cause) == Message(name)

\* The parser each entry point hands the reply to.
ParseReplyOf(name, text) ==
    IF name \in {"generate_pico_from_title", "refine_pico_elements"}
    THEN parse_pico(text)
    ELSE IF name = "generate_concepts_from_pico"
    THEN parse_concepts(text)
    ELSE parse_search_terms_all(text)

\* The texts the completion may hold.
ReplyTexts ==
    { <<>>,
      <<" ", NL>>,
      <<"P","o","p","u","l","a","t","i","o","n",":"," ","x",NL,"O","u","t","c","o","m","e",":"," ","y">>,
      <<"1","."," ","D","i","a","b","e","t","e","s",NL,"2","."," ","x">>,
      join_nl(BlockDiabetes) }

\* What the completion call does: it raises, it answers with no content
\* (message.content is None), or it answers with a text.
LLMReplies ==
    { [kind |-> "error", content |-> <<>>],
      [kind |-> "missing", content |-> <<>>] }
        \cup { [kind |-> "text", content |-> t] : t \in ReplyTexts }

InitEntry ==
    /\ pc = TryBody[1]
    /\ entry_point \in EntryPoints
    /\ env_key \in BOOLEAN
    /\ secrets_key \in BOOLEAN
    /\ llm_reply = [kind |-> "none", content |-> <<>>]
    /\ events = <<>>
    /\ caught = "none"
    /\ logged = <<>>
    /\ raised = "none"
    /\ result = <<>>
    /\ session_state = <<>>
    /\ shown = "none"
    /\ ParsersIdle

\* The statement stmt is executed and raises exception, or nothing ("none").
Execute(stmt, exception) ==
    /\ pc = stmt
    /\ events' = Append(events, stmt)
    /\ IF exception = "none"
       THEN pc' = After(stmt) /\ UNCHANGED caught
       ELSE pc' = "except" /\ caught' = exception

\* client = OpenAI(): the constructor raises when it finds no key.
CreateClient ==
    /\ Execute("OpenAI", IF env_key THEN "none" ELSE "OpenAIError")
    /\ UNCHANGED <<entry_point, env_key, secrets_key, llm_reply, logged, result,
                   raised, session_state, shown, picoVars, conceptVars, termVars>>

\* client.api_key = st.secrets["OPENAI_API_KEY"]
LookupSecret ==
    /\ Execute("secrets", IF secrets_key THEN "none" ELSE "KeyError")
    /\ UNCHANGED <<entry_point, env_key, secrets_key, llm_reply, logged, result,
                   raised, session_state, shown, picoVars, conceptVars, termVars>>

\* prompt = (...)
BuildPrompt ==
    /\ Execute("prompt", "none")
    /\ UNCHANGED <<entry_point, env_key, secrets_key, llm_reply, logged, result,
                   raised, session_state, shown, picoVars, conceptVars, termVars>>

\* response = client.chat.completions.create(...)
CallCompletion ==
    /\ \E r \in LLMReplies :
          /\ llm_reply' = r
          /\ Execute("create", IF r.kind = "error" THEN "APIError" ELSE "none")
    /\ UNCHANGED <<entry_point, env_key, secrets_key, logged, result,
                   raised, session_state, shown, picoVars, conceptVars, termVars>>

\* output = response.choices[0].message.content.strip(): None has no strip.
ReadContent ==
    /\ Execute("content",
               IF llm_reply.kind = "missing" THEN "AttributeError" ELSE "none")
    /\ UNCHANGED <<entry_point, env_key, secrets_key, llm_reply, logged, result,
                   raised, session_state, shown, picoVars, conceptVars, termVars>>

\* the reply is parsed
ParseReply ==
    /\ Execute("parse", "none")
    /\ result' = ParseReplyOf(entry_point, strip(llm_reply.content))
    /\ UNCHANGED <<entry_point, env_key, secrets_key, llm_reply, logged,
                   raised, session_state, shown, picoVars, conceptVars, termVars>>

\* return pico_elements / concepts / search_terms_dict
ReturnResult ==
    /\ pc = "return"
    /\ pc' = "returned"
    /\ UNCHANGED <<appVars, picoVars, conceptVars, termVars>>

\* except Exception as e: logging.error(...); raise Exception(...)
ExceptClause ==
    /\ pc = "except"
    /\ logged' = Append(logged, caught)
    /\ raised' = Reraise(entry_point, caught)
    /\ pc' = "raised"
    /\ UNCHANGED <<entry_point, env_key, secrets_key, llm_reply, events, caught,
                   result, session_state, shown, picoVars, conceptVars, termVars>>

NextEntry ==
    \/ CreateClient \/ LookupSecret \/ BuildPrompt \/ CallCompletion
    \/ ReadContent \/ ParseReply \/ ReturnResult \/ ExceptClause

SpecEntry == InitEntry /\ [][NextEntry]_vars

-----------------------------------------------------------------------------
(* Claims about the entry points                                           *)

Executed(stmt) == \E i \in 1..Len(events) : events[i] = stmt

\* The completion came back without text: no content, or whitespace only.
BlankReply ==
    \/ llm_reply.kind = "missing"
    \/ llm_reply.kind = "text" /\ strip(llm_reply.content) = <<>>

\* C11: an entry point raises a failure and never returns a result, not even
\* an empty skeleton or an empty collection, when the reply of the model is
\* missing, empty or whitespace only.
C11_BlankReplyNeverReturns ==
    BlankReply => (pc # "returned" /\ pc # "return")

Failures == {"OpenAIError", "KeyError", "APIError", "AttributeError"}

\* C12: a failure of the credential lookup, of the completion call or of
\* reading the reply is caught, logged with its cause and replaced by one
\* generic exception whose message depends on the entry point only; the
\* original exception never reaches the caller, and nothing is raised when
\* nothing failed.
C12_OneGenericException ==
    /\ caught \in Failures => pc \in {"except", "raised"}
    /\ pc = "raised" =>
          /\ caught \in Failures
          /\ logged = <<caught>>
          /\ raised = Message(entry_point)
          /\ raised \notin Failures
          /\ result = <<>>
    /\ pc = "returned" =>
          /\ caught = "none" /\ raised = "none" /\ logged = <<>>
          /\ Executed("parse")
    /\ pc \notin {"raised"} => raised = "none"

\* The completion call failed and the caller sees the generic exception.
C12_Witness ==
    /\ pc = "raised"
    /\ entry_point = "generate_search_terms_all"
    /\ caught = "APIError"
    /\ logged = <<"APIError">>
    /\ raised = "An error occurred while generating search terms."

NoCredential == ~env_key /\ ~secrets_key

\* C13: without any credential the entry point fails before a prompt is
\* built and before a request is sent: neither statement is ever executed,
\* nothing is returned, and the failure raised is the one of the missing
\* credential.
C13_NoCredentialNoPrompt ==
    NoCredential =>
        /\ ~Executed("prompt")
        /\ ~Executed("create")
        /\ pc \notin {"return", "returned"}
        /\ pc = "raised" => (logged = <<"OpenAIError">> /\ events = <<"OpenAI">>)

\* Without credential the call ended in the except clause after one statement.
C13_Witness ==
    /\ NoCredential
    /\ pc = "raised"
    /\ events = <<"OpenAI">>
    /\ raised = Message(entry_point)

-----------------------------------------------------------------------------
(* parse_search_terms_all on replies written with CRLF line endings        *)

\* '\r\n'.join(lines)
RECURSIVE join_crlf(_)
join_crlf(ls) ==
    IF ls = <<>> THEN <<>>
    ELSE IF Len(ls) = 1 THEN ls[1]
    ELSE ls[1] \o <<CR, NL>> \o join_crlf(Tail(ls))

\* The text with every line ending written as CR LF.
WithCRLF(text) == join_crlf(split_nl(text))

\* The text with every CR LF written as LF.
WithLF(text) ==
    LET ls == split_nl(text)
        n == Len(ls)
    IN  join_nl([i \in 1..n |->
                   IF i < n /\ ls[i] # <<>> /\ ls[i][Len(ls[i])] = CR
                   THEN SubSeq(ls[i], 1, Len(ls[i]) - 1) ELSE ls[i]])

InitLineEndings ==
    /\ pc = "parse_search_terms_all"
    /\ concepts_list = <<Diabetes, Insulin>>
    /\ terms_output \in {WithCRLF(t) : t \in TermInputs}
    /\ concept_blocks = <<>>
    /\ lines = <<>>
    /\ concept_name = <<>>
    /\ mesh_terms = <<>>
    /\ text_terms = <<>>
    /\ current_section = "None"
    /\ search_terms_dict = <<>>
    /\ pico_src = [labelled |-> FALSE, values |-> <<>>, lines |-> <<>>]
    /\ pico_text = <<>>
    /\ pico_elements = <<>>
    /\ concepts_text = <<>> /\ concepts = <<>> /\ reparsed = <<>>
    /\ AppIdle

SpecLineEndings == InitLineEndings /\ [][NextTerms]_vars

HasCR(s) == \E i \in 1..Len(s) : s[i] = CR

\* C14: the mapping returned for a text written with CRLF line endings is
\* the mapping returned for the same text written with LF line endings, and
\* no name and no term of it holds a carriage return.
C14_LineEndingInsensitive ==
    pc = "terms_done" =>
        /\ search_terms_dict = parse_search_terms_all(WithLF(terms_output))
        /\ \A i \in 1..Len(search_terms_dict) :
              LET entry == search_terms_dict[i][2] IN
              /\ ~HasCR(search_terms_dict[i][1])
              /\ \A j \in 1..Len(entry.MeSH_Terms) : ~HasCR(entry.MeSH_Terms[j])
              /\ \A j \in 1..Len(entry.Text_Terms) : ~HasCR(entry.Text_Terms[j])

\* Two blocks written with CRLF give the two entries of the LF text.
C14_Witness ==
    /\ pc = "terms_done"
    /\ terms_output = WithCRLF(join_nl(BlockDiabetes \o BlockInsulinLower))
    /\ HasCR(terms_output)
    /\ search_terms_dict =
           << <<Diabetes, [MeSH_Terms |-> << <<"a">>, <<"b">> >>,
                           Text_Terms |-> << <<"c">> >>]>>,
              <<LowerStr(Insulin), [MeSH_Terms |-> << <<"b">> >>,
                                    Text_Terms |-> << <<>> >>]>> >>

-----------------------------------------------------------------------------
(* Headers the line scanner recognises and the blocks the split makes      *)

\* The lines of the text the scanner takes for a 'Concept:' header.
HeaderLinesOf(ls) ==
    {i \in 1..Len(ls) : startswith(strip(ls[i]), ConceptHeader)}

HeaderNameAt(ls, i) == strip(DropN(strip(ls[i]), Len(ConceptHeader)))

\* The terms of the dash lines between a header line of this name and the
\* next header line.
OwnTerms(ls, name) ==
    LET headers == HeaderLinesOf(ls) IN
    { strip(Tail(strip(ls[j]))) :
        j \in { k \in 1..Len(ls) :
                  /\ startswith(strip(ls[k]), <<"-">>)
                  /\ \E i \in headers :
                        /\ i < k
                        /\ HeaderNameAt(ls, i) = name
                        /\ \A h \in headers : ~(i < h /\ h < k) } }

\* C15: every 'Concept:' header line with a non-empty name that the scanner
\* recognises, an indented one included, yields its own key, and the lists
\* of a key hold only terms of dash lines between a header of that name and
\* the next header line.
C15_EachHeaderOwnsItsTerms ==
    pc = "terms_done" =>
        LET ls == split_nl(terms_output) IN
        /\ \A i \in HeaderLinesOf(ls) :
              HeaderNameAt(ls, i) # <<>> =>
                  DictHas(search_terms_dict, HeaderNameAt(ls, i))
        /\ \A i \in 1..Len(search_terms_dict) :
              LET name == search_terms_dict[i][1]
                  entry == search_terms_dict[i][2]
                  own == OwnTerms(ls, name)
              IN  /\ \A j \in 1..Len(entry.MeSH_Terms) : entry.MeSH_Terms[j] \in own
                  /\ \A j \in 1..Len(entry.Text_Terms) : entry.Text_Terms[j] \in own

-----------------------------------------------------------------------------
(* The wizard of main.py.  One run of the script renders one step; a       *)
(* button runs its handler, and st.rerun() runs the script again.          *)

\* The largest id Add Concept gives a concept.
MaxId == 2

steps ==
    <<"Title", "PICO", "Concept Extraction", "Generate Search Terms",
      "Construct Search Strategy", "Complete">>

default_keys ==
    [completed_steps |-> <<>>,
     population |-> <<>>, intervention |-> <<>>, comparison |-> <<>>,
     outcome |-> <<>>,
     pico_generated |-> FALSE,
     concepts |-> <<>>,
     search_terms |-> <<>>,
     search_strategy |-> <<>>]

\* step in st.session_state.completed_steps
Completed(ss, step) ==
    \E i \in 1..Len(ss.completed_steps) : ss.completed_steps[i] = step

\* if step not in completed_steps: completed_steps.append(step)
MarkCompleted(ss, step) ==
    IF Completed(ss, step) THEN ss
    ELSE [ss EXCEPT !.completed_steps = Append(@, step)]

\* if step in completed_steps: completed_steps.remove(step)
Unmark(ss, step) ==
    IF Completed(ss, step)
    THEN LET cs == ss.completed_steps
             i == CHOOSE j \in 1..Len(cs) :
                      cs[j] = step /\ \A k \in 1..(j - 1) : cs[k] # step
         IN  [ss EXCEPT !.completed_steps =
                            SubSeq(cs, 1, i - 1) \o SubSeq(cs, i + 1, Len(cs))]
    ELSE ss

\* The if/elif chain of main: the step function this run calls.
StepToRun(ss) ==
    IF \E i \in 1..Len(steps) : ~Completed(ss, steps[i])
    THEN steps[CHOOSE i \in 1..Len(steps) :
                   /\ ~Completed(ss, steps[i])
                   /\ \A j \in 1..(i - 1) : Completed(ss, steps[j])]
    ELSE "All steps completed"

\* As BackRemoves, with every Back handler removing the first step.
BackRemoves_Title(step) == "Title"

\* The name the Back handler of a step removes from completed_steps.
BackRemoves(step) ==
    IF step = "Concept Extraction" THEN "PICO"
    ELSE IF step = "Generate Search Terms" THEN "Concept Extraction"
    ELSE "Generate Search Terms"

\* The dummy terms step 4 gives a concept.
DummyTerms(concept_text) ==
    [MeSH_Terms |-> << <<"MeSH Term 1 for", concept_text>>,
                       <<"MeSH Term 2 for", concept_text>> >>,
     Text_Terms |-> << <<"Text Term 1 for", concept_text>>,
                       <<"Text Term 2 for", concept_text>> >>]

RECURSIVE DummyData(_, _)
DummyData(dict, cs) ==
    IF cs = <<>> THEN dict
    ELSE DummyData(DictSet(dict, Head(cs).text, DummyTerms(Head(cs).text)),
                   Tail(cs))

\* search_terms[concept_text] succeeds for every concept of the list.
LookupsSucceed(ss) ==
    \A i \in 1..Len(ss.concepts) : DictHas(ss.search_terms, ss.concepts[i].text)

\* The strategy string, as the list of its components: one per concept,
\* made of the concept's terms.
StrategyOf(ss) ==
    [i \in 1..Len(ss.concepts) |-> DictGet(ss.search_terms, ss.concepts[i].text)]

\* What generate_concepts_from_pico does when step 3 calls it.
ConceptOutcomes ==
    { [kind |-> "raise", value |-> <<>>],
      [kind |-> "return", value |-> <<>>],
      [kind |-> "return", value |-> <<Diabetes>>],
      [kind |-> "return", value |-> <<Diabetes, Insulin>>] }

PicoFields(p, o) ==
    [Population |-> p, Intervention |-> <<"x">>, Comparison |-> <<"x">>,
     Outcome |-> o]

\* What generate_pico_from_title and refine_pico_elements do.
PicoOutcomes ==
    { [kind |-> "raise", value |-> PicoFields(<<>>, <<>>)],
      [kind |-> "return", value |-> PicoFields(<<"x">>, <<"x">>)],
      [kind |-> "return", value |-> PicoFields(<<>>, <<>>)] }

\* What the user types into a PICO field, a title or a concept field.
PicoInputs ==
    { PicoFields(<<"x">>, <<"x">>), PicoFields(<<" ">>, <<"x">>),
      PicoFields(<<"x">>, <<>>) }
Titles == { <<>>, <<"t">> }
ConceptTexts == { Diabetes, Insulin }

Page(ss) == [state |-> ss, page |-> "page", raised |-> "none"]

\* step_concept_extraction up to its widgets
RenderConcepts(ss, ai) ==
    IF ss.concepts = <<>>
    THEN IF ai.kind = "raise" \/ ai.value = <<>>
         THEN [state |-> ss, page |-> "page_error", raised |-> "none"]
         ELSE Page([ss EXCEPT !.concepts =
                       [i \in 1..Len(ai.value) |->
                           [id |-> i, text |-> ai.value[i]]]])
    ELSE Page(ss)

\* step_generate_search_terms up to its widgets
RenderTerms(ss) ==
    LET ss1 == IF ss.search_terms = <<>>
               THEN [ss EXCEPT !.search_terms = DummyData(<<>>, ss.concepts)]
               ELSE ss
    IN  IF LookupsSucceed(ss1) THEN Page(ss1)
        ELSE [state |-> ss1, page |-> "crashed", raised |-> "KeyError"]

\* step_construct_search_strategy up to its widgets
RenderStrategy(ss) ==
    IF ss.search_strategy = <<>>
    THEN IF LookupsSucceed(ss)
         THEN Page([ss EXCEPT !.search_strategy = StrategyOf(ss)])
         ELSE [state |-> ss, page |-> "crashed", raised |-> "KeyError"]
    ELSE Page(ss)

\* One run of main without a pressed button.
Render(ss, ai) ==
    LET step == StepToRun(ss) IN
    IF step = "Concept Extraction" THEN RenderConcepts(ss, ai)
    ELSE IF step = "Generate Search Terms" THEN RenderTerms(ss)
    ELSE IF step = "Construct Search Strategy" THEN RenderStrategy(ss)
    ELSE Page(ss)

\* st.rerun(): the script runs again on the session state ss.
Rerun(ss) ==
    \E ai \in ConceptOutcomes :
        LET r == Render(ss, ai) IN
        /\ session_state' = r.state
        /\ shown' = StepToRun(ss)
        /\ pc' = r.page
        /\ raised' = r.raised

\* The run ends without st.rerun(): the same page with the state ss.
Stay(ss) ==
    /\ session_state' = ss
    /\ UNCHANGED <<shown, pc, raised>>

Showing(step) == pc = "page" /\ shown = step

InitWizard ==
    /\ pc = "page"
    /\ shown = "Title"
    /\ session_state = default_keys
    /\ EntryIdle
    /\ ParsersIdle

\* "Skip to PICO"
SkipToPico ==
    /\ Showing("Title")
    /\ Rerun([MarkCompleted(session_state, "Title") EXCEPT !.pico_generated = FALSE])
    /\ UNCHANGED <<entryVars, picoVars, conceptVars, termVars>>

\* "Generate PICO from Title"
GeneratePico ==
    /\ Showing("Title")
    /\ \E title_input \in Titles, ai \in PicoOutcomes :
          IF title_input # <<>> /\ ai.kind = "return"
          THEN Rerun(MarkCompleted(
                   [session_state EXCEPT !.population = ai.value.Population,
                                         !.intervention = ai.value.Intervention,
                                         !.comparison = ai.value.Comparison,
                                         !.outcome = ai.value.Outcome,
                                         !.pico_generated = TRUE], "Title"))
          ELSE Stay(session_state)
    /\ UNCHANGED <<entryVars, picoVars, conceptVars, termVars>>

\* "Refine using AI"
RefinePico ==
    /\ Showing("PICO")
    /\ \E ai \in PicoOutcomes :
          IF ai.kind = "return"
          THEN Rerun([session_state EXCEPT !.population = ai.value.Population,
                                           !.intervention = ai.value.Intervention,
                                           !.comparison = ai.value.Comparison,
                                           !.outcome = ai.value.Outcome])
          ELSE Stay(session_state)
    /\ UNCHANGED <<entryVars, picoVars, conceptVars, termVars>>

\* "Next" of step 2
NextFromPico ==
    /\ Showing("PICO")
    /\ \E input \in PicoInputs :
          LET ss == [session_state EXCEPT !.population = input.Population,
                                          !.intervention = input.Intervention,
                                          !.comparison = input.Comparison,
                                          !.outcome = input.Outcome]
          IN  IF /\ strip(ss.population) # <<>>
                 /\ strip(ss.intervention) # <<>>
                 /\ strip(ss.comparison) # <<>>
                 /\ strip(ss.outcome) # <<>>
              THEN Rerun(MarkCompleted(ss, "PICO"))
              ELSE Stay(ss)
    /\ UNCHANGED <<entryVars, picoVars, conceptVars, termVars>>

\* a concept's text field is edited: concept['text'] = new_text
EditConcept ==
    /\ Showing("Concept Extraction")
    /\ \E i \in 1..Len(session_state.concepts), new_text \in ConceptTexts :
          Stay([session_state EXCEPT !.concepts[i].text = new_text])
    /\ UNCHANGED <<entryVars, picoVars, conceptVars, termVars>>

\* the delete button of a concept
DeleteConcept ==
    /\ Showing("Concept Extraction")
    /\ \E i \in 1..Len(session_state.concepts) :
          Rerun([session_state EXCEPT !.concepts =
                    SelectSeq(@, LAMBDA c : c.id # session_state.concepts[i].id)])
    /\ UNCHANGED <<entryVars, picoVars, conceptVars, termVars>>

\* max([c['id'] for c in concepts] or [0]) + 1
NewId(cs) ==
    IF cs = <<>> THEN 1
    ELSE 1 + CHOOSE m \in {cs[i].id : i \in 1..Len(cs)} :
                 \A i \in 1..Len(cs) : cs[i].id <= m

\* "Add Concept"
AddConcept ==
    /\ Showing("Concept Extraction")
    /\ NewId(session_state.concepts) <= MaxId
    /\ Rerun([session_state EXCEPT !.concepts =
                 Append(@, [id |-> NewId(session_state.concepts), text |-> <<>>])])
    /\ UNCHANGED <<entryVars, picoVars, conceptVars, termVars>>

\* "Next" of step 3
NextFromConcepts ==
    /\ Showing("Concept Extraction")
    /\ Rerun(MarkCompleted(session_state, "Concept Extraction"))
    /\ UNCHANGED <<entryVars, picoVars, conceptVars, termVars>>

\* "Back" of step 3
BackFromConcepts ==
    /\ Showing("Concept Extraction")
    /\ Rerun(Unmark(session_state, BackRemoves("Concept Extraction")))
    /\ UNCHANGED <<entryVars, picoVars, conceptVars, termVars>>

\* "Next" of step 4
NextFromTerms ==
    /\ Showing("Generate Search Terms")
    /\ Rerun(MarkCompleted(session_state, "Generate Search Terms"))
    /\ UNCHANGED <<entryVars, picoVars, conceptVars, termVars>>

\* "Back" of step 4
BackFromTerms ==
    /\ Showing("Generate Search Terms")
    /\ Rerun(Unmark(session_state, BackRemoves("Generate Search Terms")))
    /\ UNCHANGED <<entryVars, picoVars, conceptVars, termVars>>

\* "Complete" of step 5
CompleteStrategy ==
    /\ Showing("Construct Search Strategy")
    /\ Rerun(MarkCompleted(MarkCompleted(session_state,
                                         "Construct Search Strategy"), "Complete"))
    /\ UNCHANGED <<entryVars, picoVars, conceptVars, termVars>>

\* "Back" of step 5
BackFromStrategy ==
    /\ Showing("Construct Search Strategy")
    /\ Rerun(Unmark(session_state, BackRemoves("Construct Search Strategy")))
    /\ UNCHANGED <<entryVars, picoVars, conceptVars, termVars>>

\* "Start Again" under "All steps completed": every key is deleted and
\* the next run initialises the session state.
StartAgain ==
    /\ Showing("All steps completed")
    /\ Rerun(default_keys)
    /\ UNCHANGED <<entryVars, picoVars, conceptVars, termVars>>

Back == BackFromConcepts \/ BackFromTerms \/ BackFromStrategy

NextWizard ==
    \/ SkipToPico \/ GeneratePico \/ RefinePico \/ NextFromPico
    \/ EditConcept \/ DeleteConcept \/ AddConcept
    \/ NextFromConcepts \/ BackFromConcepts
    \/ NextFromTerms \/ BackFromTerms
    \/ CompleteStrategy \/ BackFromStrategy
    \/ StartAgain

SpecWizard == InitWizard /\ [][NextWizard]_vars

-----------------------------------------------------------------------------
(* Claims about the wizard                                                 *)

StepIndex(step) == CHOOSE i \in 1..Len(steps) : steps[i] = step

\* completed_steps is a prefix of the fixed order.
LinearProgress(ss) ==
    /\ Len(ss.completed_steps) <= Len(steps)
    /\ ss.completed_steps = SubSeq(steps, 1, Len(ss.completed_steps))

\* The first step of the fixed order that is not completed.
FirstOpenStep(ss) ==
    IF Len(ss.completed_steps) < Len(steps)
    THEN steps[Len(ss.completed_steps) + 1]
    ELSE "All steps completed"

\* C16: navigation is linear: completed_steps has no duplicates and is a
\* prefix of the fixed order of the six steps, the step shown is the first
\* one of that order that is not completed, and a Back button of step k
\* leads to step k-1 being shown.
C16_LinearNavigation ==
    /\ [](/\ LinearProgress(session_state)
          /\ \A i, j \in 1..Len(session_state.completed_steps) :
                 session_state.completed_steps[i] = session_state.completed_steps[j]
                     => i = j
          /\ shown = FirstOpenStep(session_state))
    /\ [][Back => /\ StepIndex(shown) > 1
                  /\ shown' = steps[StepIndex(shown) - 1]]_vars

\* Back from step 4 and then from step 3: step 2 is shown with the concepts
\* and the search terms of the later steps still in the session.
C16_Witness ==
    /\ pc = "page"
    /\ shown = "PICO"
    /\ session_state.completed_steps = <<"Title">>
    /\ session_state.concepts # <<>>
    /\ session_state.search_terms # <<>>

\* C17: after Complete is pressed on the Construct Search Strategy step the
\* next render shows the Complete step: 'Construct Search Strategy' is in
\* completed_steps and 'Complete' is not.
C17_CompleteStepShown ==
    [][CompleteStrategy =>
          /\ shown' = "Complete"
          /\ Completed(session_state', "Construct Search Strategy")
          /\ ~Completed(session_state', "Complete")]_vars

\* C18: whenever step 4 or step 5 is rendered, search_terms has an entry for
\* the text of every concept of the session, and no lookup raises KeyError.
C18_EveryConceptHasTerms ==
    shown \in {"Generate Search Terms", "Construct Search Strategy"} =>
        /\ raised = "none"
        /\ pc = "page"
        /\ LookupsSucceed(session_state)

====
